---- MODULE Spec2Model ----
(***************************************************************************)
(* Model of concurrent-file-downloader.py: the DownloadThread workers, the *)
(* DownloadWidget records that own them, the DownloaderApp registry, the   *)
(* queued signal connections between them and the files the workers write. *)
(***************************************************************************)
EXTENDS Integers, Sequences, FiniteSets, TLC

(* ------------------------------ bounds -------------------------------- *)
\* Number of DownloadWidget objects ever created by add_download.
MaxDownloads == 2
\* Number of chunks response.iter_content yields before the stream must end.
MaxChunks == 2

(* ------------------------- double arithmetic -------------------------- *)
\* A Python float is an IEEE 754 binary64: a significand of 53 digits, held
\* here as one leading piece and SigLimbs pieces of LimbBits digits each.
LimbBits == 13
SigLimbs == 4
Base == 2 ^ LimbBits

RECURSIVE BitLen(_)
\* The number of binary digits of n.
BitLen(n) == IF n = 0 THEN 0 ELSE 1 + BitLen(n \div 2)

Front(s) == SubSeq(s, 1, Len(s) - 1)
Last(s) == s[Len(s)]

RECURSIVE DivLimbs(_, _, _)
\* Long division in base Base: the next n pieces of the quotient r / T for
\* 0 <= r < T, followed by the remainder left after them.
DivLimbs(r, T, n) ==
    IF n = 0 THEN <<r>>
    ELSE <<(r * Base) \div T>> \o DivLimbs((r * Base) % T, T, n - 1)

RECURSIVE Ripple(_, _)
\* The pieces m plus c at the last piece, carries propagated to the front.
Ripple(m, c) ==
    IF Len(m) = 1 THEN <<m[1] + c>>
    ELSE Append(Ripple(Front(m), (Last(m) + c) \div Base), (Last(m) + c) % Base)

RECURSIVE Scale(_, _, _)
\* The pieces of m * k + c.
Scale(m, k, c) ==
    IF Len(m) = 1 THEN <<m[1] * k + c>>
    ELSE Append(Scale(Front(m), k, (Last(m) * k + c) \div Base),
                (Last(m) * k + c) % Base)

\* Rounding to nearest, ties to even, of pieces m to 53 significant digits:
\* the g digits the leading piece has beyond its first are dropped at the end.
RoundLimbs(m) ==
    LET g    == BitLen(m[1]) - 1
        unit == 2 ^ g
        low  == Last(m) % unit
        odd  == IF g < LimbBits THEN (Last(m) \div unit) % 2 = 1
                ELSE m[Len(m) - 1] % 2 = 1
        up   == g > 0 /\ (2 * low > unit \/ (2 * low = unit /\ odd))
    IN  Ripple([m EXCEPT ![Len(m)] = @ - low], IF up THEN unit ELSE 0)

\* floor(log2(d / t)) for 0 < d, 0 < t.
Exponent(d, t) ==
    IF d >= t THEN BitLen(d \div t) - 1 ELSE 0 - BitLen((t - 1) \div d)

\* A float is [m, e]: its value is the number with pieces m, times
\* 2^(e - SigLimbs * LimbBits).
\* downloaded / total_size for 0 < d, 0 < t, both exactly representable.
FloatDiv(d, t) ==
    LET e  == Exponent(d, t)
        D  == IF e < 0 THEN d * 2 ^ (0 - e) ELSE d
        T  == IF e > 0 THEN t * 2 ^ e ELSE t
        q  == DivLimbs(D - T, T, SigLimbs)
        r  == Last(q)
        up == 2 * r > T \/ (2 * r = T /\ q[SigLimbs] % 2 = 1)
    IN  [m |-> Ripple(<<1>> \o Front(q), IF up THEN 1 ELSE 0), e |-> e]

\* x * k for a float x and an integer 0 < k < Base.
FloatMul(x, k) == [m |-> RoundLimbs(Scale(x.m, k, 0)), e |-> x.e]

\* int(x): truncation toward zero, for a float 0 < x < 2^LimbBits.
FloatToInt(x) ==
    IF x.e < 0 THEN x.m[1] \div 2 ^ (0 - x.e)
    ELSE x.m[1] * 2 ^ x.e + x.m[2] \div 2 ^ (LimbBits - x.e)

\* Line 65 with the operands of the division exchanged.
ProgressSwapped(d, t) ==
    IF d = 0 THEN 0 ELSE FloatToInt(FloatMul(FloatDiv(t, d), 100))

\* Line 65: progress = int((downloaded / total_size) * 100)
Progress(d, t) == IF d = 0 THEN 0 ELSE FloatToInt(FloatMul(FloatDiv(d, t), 100))

(* ------------------------------- inputs ------------------------------- *)
\* Texts typed into url_input, one character per element.
URLs == { <<" ", "h", "/", "a", "?", "b">>,
          <<"h", "/">>,
          <<" ">> }
\* Content-Length values a server declares (0 stands for a missing header).
\* Two chunks make up a body of 58 bytes; a declared 50 is a body that is
\* longer than declared, as a decoded gzip body is.
Totals == {0, 50, 58}
\* Sizes of the chunks iter_content yields, and of a whole body.
ChunkLens == {29}

Ids == 1..MaxDownloads

Range(s) == {s[k] : k \in 1..Len(s)}
Max(a, b) == IF a >= b THEN a ELSE b

(* ---------------------------- add_download ---------------------------- *)
Whitespace == {" "}

RECURSIVE lstrip(_)
lstrip(s) == IF s # <<>> /\ s[1] \in Whitespace THEN lstrip(Tail(s)) ELSE s

RECURSIVE rstrip(_)
rstrip(s) ==
    IF s # <<>> /\ s[Len(s)] \in Whitespace
    THEN rstrip(SubSeq(s, 1, Len(s) - 1)) ELSE s

\* str.strip()
strip(s) == rstrip(lstrip(s))

RECURSIVE before(_, _)
\* s.split(c)[0]: the part of s before the first c.
before(s, c) ==
    IF s = <<>> \/ s[1] = c THEN <<>> ELSE <<s[1]>> \o before(Tail(s), c)

RECURSIVE basename(_)
\* os.path.basename: the part of s after the last "/".
basename(s) ==
    IF \E k \in 1..Len(s) : s[k] = "/" THEN basename(Tail(s)) ELSE s

Digit == <<"0", "1", "2", "3", "4", "5", "6", "7", "8", "9">>

RECURSIVE str(_)
\* str(n) for n >= 0
str(n) == IF n < 10 THEN <<Digit[n + 1]>> ELSE str(n \div 10) \o <<Digit[(n % 10) + 1]>>

\* Lines 276-280: the save path add_download derives from the stripped url
\* when the registry holds n records.
SavePath(u, n) ==
    LET filename == basename(before(u, "?"))
    IN  IF filename = <<>> THEN <<"download_">> \o str(n + 1) ELSE filename

(* ------------------------------- state -------------------------------- *)
VARIABLES
    downloads,    \* DownloaderApp.downloads: the ids of the widgets, in order
    created,      \* number of DownloadWidget objects constructed so far
    widget,       \* widget[i]: the fields of DownloadWidget i
    thread,       \* thread[i]: the fields and the position of DownloadThread i
    emitted,      \* emitted[i]: the signals thread i has emitted, in order
    delivered,    \* delivered[i]: how many of them reached the widget's slots
    confirmed,    \* the last step was a clear_downloads answered Yes
    fs,           \* the directory: the entries [path, f] that exist
    fsize,        \* fsize[f]: the length of file f
    launches,     \* launches[i]: how many times run() of thread i was entered
    intr_when,    \* where thread i was when interrupt() first reached it
    late          \* late[i]: the chunks thread i wrote with its flag set

vars == <<downloads, created, widget, thread, emitted, delivered, confirmed, fs, fsize, launches, intr_when, late>>

InterruptMsg == "Download interrupted by user"
RequestMsg == "request failed"
IOMsg == "I/O error"

Ev(sig, val, msg) == [sig |-> sig, val |-> val, msg |-> msg]
ProgressEv(p) == Ev("progress_signal", p, "")
FinishedEv == Ev("finished_signal", 0, "")
ErrorEv(msg) == Ev("error_signal", 0, msg)

Ready == <<"Ready to download">>
Downloading == <<"Downloading...">>
Interrupting == <<"Interrupting...">>
Complete == <<"Complete!">>
ErrorText(msg) == <<"Error: ", msg>>

\* DownloadThread.__init__
NewThread(id, u, path) ==
    [url |-> u, save_path |-> path, download_id |-> id, pc |-> "idle",
     is_interrupted |-> FALSE,
     total_size |-> 0, downloaded |-> 0, data |-> 0, chunks |-> 0, f |-> 0]

\* DownloadWidget.__init__, _setup_ui and _setup_thread
NewWidget(id, u, path) ==
    [url |-> u, save_path |-> path, download_id |-> id,
     is_started |-> FALSE, is_finished |-> FALSE, status_label |-> Ready,
     progress_bar |-> -1, interrupt_button |-> FALSE]

NoWidget == NewWidget(0, <<>>, <<>>)

Init ==
    /\ downloads = <<>>
    /\ created = 0
    /\ widget = [i \in Ids |-> NoWidget]
    /\ thread = [i \in Ids |-> NewThread(0, <<>>, <<>>)]
    /\ emitted = [i \in Ids |-> <<>>]
    /\ delivered = [i \in Ids |-> 0]
    /\ confirmed = FALSE
    /\ fs = {}
    /\ fsize = [i \in Ids |-> 0]
    /\ launches = [i \in Ids |-> 0]
    /\ intr_when = [i \in Ids |-> "never"]
    /\ late = [i \in Ids |-> 0]

(* ----------------------------- the files ------------------------------ *)
\* os.path.exists(path)
exists(dir, path) == \E e \in dir : e.path = path

FileAt(dir, path) == (CHOOSE e \in dir : e.path = path).f

\* os.remove(path)
remove(dir, path) == {e \in dir : e.path # path}

Emit(i, ev) == emitted' = [emitted EXCEPT ![i] = Append(@, ev)]

(* --------------------------- DownloadThread --------------------------- *)
\* Lines 39-41 with the flag flipped instead of set.
interrupt_toggle(t) == [t EXCEPT !.is_interrupted = ~@]

\* Lines 39-41.
interrupt(t) == [t EXCEPT !.is_interrupted = TRUE]

\* QThread.start(): enters run() unless the thread is running.
start(t) ==
    IF t.pc \in {"idle", "done"}
    THEN [t EXCEPT !.pc = "get", !.total_size = 0, !.downloaded = 0,
                   !.data = 0, !.chunks = 0, !.f = 0]
    ELSE t

\* Lines 76-77 with the handler inside the try block: run() goes on to line 68.
FailThenFinish(i, msg) ==
    /\ Emit(i, ErrorEv(msg))
    /\ thread' = [thread EXCEPT ![i].pc = "fin"]

\* Lines 76-77 followed by the clean-up of lines 74-75.
FailThenCleanup(i, msg) ==
    /\ Emit(i, ErrorEv(msg))
    /\ thread' = [thread EXCEPT ![i].pc = "exists"]

\* Lines 76-77: any other exception ends run() with an error signal.
Fail(i, msg) ==
    /\ Emit(i, ErrorEv(msg))
    /\ thread' = [thread EXCEPT ![i].pc = "done"]

\* Lines 49-54 with the file opened before the request is made.
GetAfterOpen(i) ==
    /\ thread[i].pc = "get"
    /\ \/ /\ Fail(i, RequestMsg)
          /\ fs' = fs \cup
                {[path |-> thread[i].save_path,
                  f |-> IF exists(fs, thread[i].save_path)
                        THEN FileAt(fs, thread[i].save_path) ELSE i]}
          /\ fsize' = [fsize EXCEPT
                ![IF exists(fs, thread[i].save_path)
                  THEN FileAt(fs, thread[i].save_path) ELSE i] = 0]
       \/ \E ts \in Totals :
            /\ thread' = [thread EXCEPT ![i].total_size = ts, ![i].pc = "open"]
            /\ UNCHANGED <<emitted, fs, fsize>>
    /\ confirmed' = FALSE
    /\ UNCHANGED <<downloads, created, widget, delivered, launches, intr_when, late>>

\* Lines 49-52: the request, its status and the Content-Length header.
Get(i) ==
    /\ thread[i].pc = "get"
    /\ \/ Fail(i, RequestMsg)
       \/ \E ts \in Totals :
            /\ thread' = [thread EXCEPT ![i].total_size = ts, ![i].pc = "open"]
            /\ UNCHANGED emitted
    /\ confirmed' = FALSE
    /\ UNCHANGED <<downloads, created, widget, delivered, fs,
                   fsize, launches, intr_when, late>>

\* Lines 54-55: open(save_path, 'wb') creates the file or truncates it.
Open(i) ==
    /\ thread[i].pc = "open"
    /\ \/ /\ Fail(i, IOMsg)
          /\ UNCHANGED <<fs, fsize>>
       \/ LET path == thread[i].save_path
              f    == IF exists(fs, path) THEN FileAt(fs, path) ELSE i
          IN  /\ fs' = fs \cup {[path |-> path, f |-> f]}
              /\ fsize' = [fsize EXCEPT ![f] = 0]
              /\ thread' = [thread EXCEPT
                    ![i].f = f,
                    ![i].pc = IF thread[i].total_size = 0 THEN "check0" ELSE "iter"]
              /\ UNCHANGED emitted
    /\ confirmed' = FALSE
    /\ UNCHANGED <<downloads, created, widget, delivered, launches, intr_when, late>>

\* Line 56: the unknown-length path reads the flag once.
Check0(i) ==
    /\ thread[i].pc = "check0"
    /\ thread' = [thread EXCEPT
          ![i].pc = IF ~thread[i].is_interrupted THEN "write0" ELSE "fin"]
    /\ confirmed' = FALSE
    /\ UNCHANGED <<downloads, created, widget, emitted, delivered, fs, fsize, launches, intr_when, late>>

\* Line 57: f.write(response.content)
Write0(i) ==
    /\ thread[i].pc = "write0"
    /\ \/ /\ Fail(i, IOMsg)
          /\ UNCHANGED fsize
       \/ \E n \in ChunkLens :
            /\ fsize' = [fsize EXCEPT ![thread[i].f] = Max(@, n)]
            /\ thread' = [thread EXCEPT ![i].chunks = 1, ![i].pc = "fin"]
            /\ UNCHANGED emitted
    /\ confirmed' = FALSE
    /\ UNCHANGED <<downloads, created, widget, delivered, fs,
                   launches, intr_when, late>>

\* Lines 60-63 without the test of line 61.
IterUnchecked(i) ==
    /\ thread[i].pc = "iter"
    /\ \/ /\ thread' = [thread EXCEPT ![i].pc = "fin"]
          /\ UNCHANGED emitted
       \/ Fail(i, IOMsg)
       \/ /\ thread[i].chunks < MaxChunks
          /\ \E n \in ChunkLens :
               thread' = [thread EXCEPT ![i].data = n, ![i].pc = "write"]
          /\ UNCHANGED emitted
    /\ confirmed' = FALSE
    /\ UNCHANGED <<downloads, created, widget, delivered, fs,
                   fsize, launches, intr_when, late>>

\* Lines 60-62: the next chunk of the stream, then the flag.
Iter(i) ==
    /\ thread[i].pc = "iter"
    /\ \/ /\ thread' = [thread EXCEPT ![i].pc = "fin"]
          /\ UNCHANGED emitted
       \/ Fail(i, IOMsg)
       \/ /\ thread[i].chunks < MaxChunks
          /\ \E n \in ChunkLens :
               thread' = [thread EXCEPT
                  ![i].data = n,
                  ![i].pc = IF thread[i].is_interrupted THEN "except" ELSE "write"]
          /\ UNCHANGED emitted
    /\ confirmed' = FALSE
    /\ UNCHANGED <<downloads, created, widget, delivered, fs,
                   fsize, launches, intr_when, late>>

\* Lines 63-66: count, write and report the chunk.
Write(i) ==
    /\ thread[i].pc = "write"
    /\ fsize' = [fsize EXCEPT
          ![thread[i].f] = Max(@, thread[i].downloaded + thread[i].data)]
    /\ thread' = [thread EXCEPT ![i].downloaded = @ + thread[i].data,
                     ![i].chunks = @ + 1, ![i].pc = "iter"]
    /\ Emit(i, ProgressEv(Progress(thread'[i].downloaded, thread[i].total_size)))
    /\ late' = [late EXCEPT ![i] = IF thread[i].is_interrupted THEN @ + 1 ELSE @]
    /\ confirmed' = FALSE
    /\ UNCHANGED <<downloads, created, widget, delivered, fs,
                   launches, intr_when>>

\* Lines 68-69.
Finish(i) ==
    /\ thread[i].pc = "fin"
    /\ IF ~thread[i].is_interrupted THEN Emit(i, FinishedEv)
       ELSE UNCHANGED emitted
    /\ thread' = [thread EXCEPT ![i].pc = "done"]
    /\ confirmed' = FALSE
    /\ UNCHANGED <<downloads, created, widget, delivered, fs,
                   fsize, launches, intr_when, late>>

\* Lines 71-72.
Except(i) ==
    /\ thread[i].pc = "except"
    /\ Emit(i, ErrorEv(InterruptMsg))
    /\ thread' = [thread EXCEPT ![i].pc = "exists"]
    /\ confirmed' = FALSE
    /\ UNCHANGED <<downloads, created, widget, delivered, fs,
                   fsize, launches, intr_when, late>>

\* Line 74.
Exists(i) ==
    /\ thread[i].pc = "exists"
    /\ thread' = [thread EXCEPT
          ![i].pc = IF exists(fs, thread[i].save_path) THEN "remove" ELSE "done"]
    /\ confirmed' = FALSE
    /\ UNCHANGED <<downloads, created, widget, emitted, delivered, fs, fsize, launches, intr_when, late>>

\* Line 75: os.remove; on a path that is gone it raises and run() ends.
Remove(i) ==
    /\ thread[i].pc = "remove"
    /\ fs' = remove(fs, thread[i].save_path)
    /\ thread' = [thread EXCEPT ![i].pc = "done"]
    /\ confirmed' = FALSE
    /\ UNCHANGED <<downloads, created, widget, emitted, delivered, fsize, launches, intr_when, late>>

\* DownloadThread.run
Run(i) ==
    \/ Get(i) \/ Open(i) \/ Check0(i) \/ Write0(i) \/ Iter(i) \/ Write(i)
    \/ Finish(i) \/ Except(i) \/ Exists(i) \/ Remove(i)

(* --------------------------- DownloadWidget --------------------------- *)
\* Lines 140-146 without line 145.
start_download_unmarked(w) ==
    IF ~w.is_started
    THEN [w EXCEPT !.status_label = Downloading, !.interrupt_button = TRUE]
    ELSE w

\* Lines 140-146; the widget's thread is set by _setup_thread and never None.
start_download(w) ==
    IF ~w.is_started
    THEN [w EXCEPT !.status_label = Downloading, !.is_started = TRUE,
                   !.interrupt_button = TRUE]
    ELSE w

\* Line 142: the condition under which start_download calls thread.start().
Starts(w) == ~w.is_started

\* Line 150: the condition under which interrupt_download acts.
Interrupts(w) == w.is_started /\ ~w.is_finished

\* Lines 148-153.
interrupt_download(w) ==
    IF Interrupts(w)
    THEN [w EXCEPT !.interrupt_button = FALSE, !.status_label = Interrupting]
    ELSE w

\* QProgressBar.setValue: a value outside the bar's range 0..100 is ignored.
setValue(bar, value) == IF value \in 0..100 THEN value ELSE bar

\* Lines 155-164 without the test of line 163.
update_progress_any(w, thread_id, progress) ==
    [w EXCEPT !.progress_bar = setValue(@, progress)]

\* Lines 155-164.
update_progress(w, thread_id, progress) ==
    IF thread_id = w.download_id
    THEN [w EXCEPT !.progress_bar = setValue(@, progress)]
    ELSE w

\* Lines 166-177.
download_finished(w, thread_id) ==
    IF thread_id = w.download_id
    THEN [w EXCEPT !.status_label = Complete, !.progress_bar = setValue(@, 100),
                   !.is_finished = TRUE, !.interrupt_button = FALSE]
    ELSE w

\* Lines 179-189.
download_error(w, thread_id, error_msg) ==
    IF thread_id = w.download_id
    THEN [w EXCEPT !.status_label = ErrorText(error_msg),
                   !.interrupt_button = FALSE]
    ELSE w

\* Lines 135-137: the slot each signal of the widget's thread is connected to.
Slot(w, thread_id, ev) ==
    CASE ev.sig = "progress_signal" -> update_progress(w, thread_id, ev.val)
      [] ev.sig = "finished_signal" -> download_finished(w, thread_id)
      [] ev.sig = "error_signal"    -> download_error(w, thread_id, ev.msg)

IsTerminal(ev) == ev.sig \in {"finished_signal", "error_signal"}

Terminals(i) == {k \in 1..Len(emitted[i]) : IsTerminal(emitted[i][k])}

\* Where thread i is, as seen from the caller of interrupt().
Moment(i) ==
    IF Terminals(i) # {} THEN "after_terminal"
    ELSE IF thread[i].chunks > 0 THEN "after_write"
    ELSE "before_write"

\* The effect of the interrupt() calls on the threads in the set S.
InterruptThreads(S) ==
    /\ thread' = [i \in Ids |-> IF i \in S THEN interrupt(thread[i]) ELSE thread[i]]
    /\ intr_when' = [i \in Ids |->
          IF i \in S /\ ~thread[i].is_interrupted THEN Moment(i) ELSE intr_when[i]]

\* A queued signal of thread i reaches the slot of its widget; the signals
\* of a thread whose widget clear_downloads has deleted reach no slot.
Deliver(i) ==
    /\ i \in Range(downloads)
    /\ delivered[i] < Len(emitted[i])
    /\ delivered' = [delivered EXCEPT ![i] = @ + 1]
    /\ widget' = [widget EXCEPT ![i] =
          Slot(@, thread[i].download_id, emitted[i][delivered[i] + 1])]
    /\ confirmed' = FALSE
    /\ UNCHANGED <<downloads, created, thread, emitted, fs,
                   fsize, launches, intr_when, late>>

\* A click on the widget's Interrupt button, which must be enabled.
ClickInterrupt(i) ==
    /\ i \in Range(downloads)
    /\ widget[i].interrupt_button
    /\ widget' = [widget EXCEPT ![i] = interrupt_download(@)]
    /\ InterruptThreads(IF Interrupts(widget[i]) THEN {i} ELSE {})
    /\ confirmed' = FALSE
    /\ UNCHANGED <<downloads, created, emitted, delivered, fs,
                   fsize, launches, late>>

(* --------------------------- DownloaderApp ---------------------------- *)
\* Lines 266-287 with the id of a record taken from its place in the list.
add_download_reuse(u) ==
    /\ created < MaxDownloads
    /\ LET url == strip(u)
           id  == Len(downloads) + 1
       IN  IF url = <<>>
           THEN UNCHANGED <<downloads, created, widget, thread>>
           ELSE /\ widget' = [widget EXCEPT
                      ![id] = NewWidget(id, url, SavePath(url, Len(downloads)))]
                /\ thread' = [thread EXCEPT
                      ![id] = NewThread(id, url, SavePath(url, Len(downloads)))]
                /\ downloads' = Append(downloads, id)
                /\ created' = created + 1
    /\ confirmed' = FALSE
    /\ UNCHANGED <<emitted, delivered, fs, fsize, launches,
                   intr_when, late>>

\* Lines 266-287; the text of url_input is u.
add_download(u) ==
    /\ created < MaxDownloads
    /\ LET url == strip(u)
           id  == created + 1
       IN  IF url = <<>>
           THEN UNCHANGED <<downloads, created, widget, thread>>
           ELSE /\ widget' = [widget EXCEPT
                      ![id] = NewWidget(id, url, SavePath(url, Len(downloads)))]
                /\ thread' = [thread EXCEPT
                      ![id] = NewThread(id, url, SavePath(url, Len(downloads)))]
                /\ downloads' = Append(downloads, id)
                /\ created' = id
    /\ confirmed' = FALSE
    /\ UNCHANGED <<emitted, delivered, fs, fsize, launches,
                   intr_when, late>>

\* Lines 289-293.
start_all_downloads ==
    /\ LET S == {i \in Range(downloads) :
                    ~widget[i].is_started /\ Starts(widget[i])}
       IN  /\ widget' = [i \in Ids |->
                 IF i \in Range(downloads) /\ ~widget[i].is_started
                 THEN start_download(widget[i]) ELSE widget[i]]
           /\ thread' = [i \in Ids |-> IF i \in S THEN start(thread[i]) ELSE thread[i]]
           /\ launches' = [i \in Ids |->
                 IF i \in S /\ thread[i].pc \in {"idle", "done"}
                 THEN launches[i] + 1 ELSE launches[i]]
    /\ confirmed' = FALSE
    /\ UNCHANGED <<downloads, created, emitted, delivered, fs,
                   fsize, intr_when, late>>

\* Lines 297-298: the widgets interrupt_all_downloads calls.
InterruptAllWidgets ==
    {i \in Range(downloads) : widget[i].is_started /\ ~widget[i].is_finished}

\* The threads whose interrupt() those calls reach.
InterruptAllThreads == {i \in InterruptAllWidgets : Interrupts(widget[i])}

\* Lines 295-299.
interrupt_all_downloads ==
    /\ widget' = [i \in Ids |->
          IF i \in InterruptAllWidgets THEN interrupt_download(widget[i])
          ELSE widget[i]]
    /\ InterruptThreads(InterruptAllThreads)
    /\ confirmed' = FALSE
    /\ UNCHANGED <<downloads, created, emitted, delivered, fs,
                   fsize, launches, late>>

\* Lines 301-326 without line 320.
clear_without_interrupt(reply) ==
    /\ downloads # <<>>
    /\ IF reply = "Yes"
       THEN /\ widget' = [i \in Ids |->
                  IF i \in Range(downloads) THEN NoWidget ELSE widget[i]]
            /\ downloads' = <<>>
            /\ UNCHANGED <<thread, intr_when>>
       ELSE UNCHANGED <<downloads, widget, thread, intr_when>>
    /\ confirmed' = (reply = "Yes")
    /\ UNCHANGED <<created, emitted, delivered, fs, fsize, launches, late>>

\* Lines 301-326. QMessageBox.question returns reply; the signals delivered
\* and the thread steps taken while it waits change nothing the handler has
\* read, so they are ordered before the call. The widgets taken off the list
\* are deleted.
clear_downloads(reply) ==
    /\ downloads # <<>>
    /\ IF reply = "Yes"
       THEN /\ InterruptThreads(InterruptAllThreads)
            /\ widget' = [i \in Ids |->
                  IF i \in Range(downloads) THEN NoWidget ELSE widget[i]]
            /\ downloads' = <<>>
       ELSE UNCHANGED <<downloads, widget, thread, intr_when>>
    /\ confirmed' = (reply = "Yes")
    /\ UNCHANGED <<created, emitted, delivered, fs, fsize, launches, late>>

\* The event loop runs the handlers of the window and the slots of the
\* widgets one at a time, while the started threads run.
Next ==
    \/ \E u \in URLs : add_download(u)
    \/ start_all_downloads
    \/ interrupt_all_downloads
    \/ \E reply \in {"Yes", "No"} : clear_downloads(reply)
    \/ \E i \in Ids : ClickInterrupt(i)
    \/ \E i \in Ids : Deliver(i)
    \/ \E i \in Ids : Run(i)

Spec == Init /\ [][Next]_vars

\* The scheduler runs every started thread and the event loop delivers every
\* queued signal.
FairSpec ==
    Spec /\ \A i \in Ids : WF_vars(Run(i)) /\ WF_vars(Deliver(i))

(* ------------------------------ properties ---------------------------- *)
Created == 1..created

\* The widgets clear_downloads has taken off the list.
Removed == Created \ Range(downloads)

IsProgress(ev) == ev.sig = "progress_signal"

\* Thread i has ended run() through the handler of line 76.
Faulted(i) ==
    \E k \in 1..Len(emitted[i]) :
        emitted[i][k].sig = "error_signal" /\ emitted[i][k].msg # InterruptMsg

\* The record states of the specification, read off the widget.
Idle(i) == ~widget[i].is_started
Finished(i) == widget[i].is_finished
Errored(i) == widget[i].status_label[1] = "Error: "

\* Thread i holds its destination file open or is cleaning it up.
Transferring(i) ==
    thread[i].pc \in {"check0", "write0", "iter", "write", "fin", "except",
                      "exists", "remove"}

\* C1: every worker whose run() has ended has emitted exactly one terminal
\* event (finished_signal or error_signal), and it is the last event emitted,
\* at whatever moment interrupt() was called.
C1_OneTerminalWhenDone ==
    \A i \in Created :
        thread[i].pc = "done" =>
            /\ Cardinality(Terminals(i)) = 1
            /\ IsTerminal(Last(emitted[i]))

\* C2: a worker emits at most one terminal event and no event after it.
C2_AtMostOneTerminal ==
    \A i \in Created :
        /\ Cardinality(Terminals(i)) <= 1
        /\ \A k \in Terminals(i) : k = Len(emitted[i])

\* A worker that has reported progress, was interrupted and ended with its
\* terminal event.
C2_Witness ==
    \E i \in Created :
        /\ thread[i].pc = "done"
        /\ thread[i].is_interrupted
        /\ Len(emitted[i]) >= 2
        /\ IsProgress(emitted[i][1])
        /\ IsTerminal(Last(emitted[i]))

\* C3: for a download with a known, positive content length the percents of
\* the progress events are non-decreasing in the order of emission.
C3_PercentNonDecreasing ==
    \A i \in Created :
        thread[i].total_size > 0 =>
            \A j, k \in 1..Len(emitted[i]) :
                (j < k /\ IsProgress(emitted[i][j]) /\ IsProgress(emitted[i][k]))
                    => emitted[i][j].val <= emitted[i][k].val

\* A worker of known length that has reported two chunks with interrupt()
\* called in between.
C3_Witness ==
    \E i \in Created :
        /\ thread[i].total_size > 0
        /\ intr_when[i] = "after_write"
        /\ Len(emitted[i]) >= 2
        /\ IsProgress(emitted[i][1]) /\ IsProgress(emitted[i][2])
        /\ emitted[i][1].val < emitted[i][2].val

\* C4: every progress event carries a percent in 0..100.
C4_PercentInRange ==
    \A i \in Created :
        \A k \in 1..Len(emitted[i]) :
            IsProgress(emitted[i][k]) => emitted[i][k].val \in 0..100

\* C5: a worker of known length that was interrupted after it had written a
\* chunk and before any terminal event, and met no fault, ends with the error
\* event of the interruption and without its destination file.
C5_InterruptAfterWrite ==
    \A i \in Created :
        (/\ thread[i].pc = "done"
         /\ thread[i].total_size > 0
         /\ intr_when[i] = "after_write"
         /\ ~Faulted(i)) =>
            /\ emitted[i] # <<>>
            /\ Last(emitted[i]) = ErrorEv(InterruptMsg)
            /\ ~exists(fs, thread[i].save_path)

\* C6: a worker that was interrupted before it had written anything, and met
\* no fault, ends with the error event of the interruption, without a
\* completion event and without its destination file.
C6_InterruptBeforeWrite ==
    \A i \in Created :
        (thread[i].pc = "done" /\ intr_when[i] = "before_write" /\ ~Faulted(i)) =>
            /\ emitted[i] # <<>>
            /\ Last(emitted[i]) = ErrorEv(InterruptMsg)
            /\ \A k \in 1..Len(emitted[i]) : emitted[i][k] # FinishedEv
            /\ ~exists(fs, thread[i].save_path)

\* C7: run() of a record's thread is entered at most once, whatever the
\* sequence of add, start, interrupt and clear operations.
C7_LaunchedAtMostOnce == \A i \in Ids : launches[i] <= 1

\* The first record has run to its end and is still listed as started while
\* the second, added to the same list, has been started too.
C7_Witness ==
    /\ created = 2
    /\ Range(downloads) = {1, 2}
    /\ launches[1] = 1 /\ thread[1].pc = "done" /\ widget[1].is_started
    /\ launches[2] = 1 /\ thread[2].pc = "get"

\* C8: no step changes the interrupt flag of a record that is Idle, Finished
\* or Errored, moves an Idle record to Interrupting, or lets a record leave
\* Finished or Errored.
C8_InterruptLeavesOthers ==
    [][\A i \in Range(downloads) \cap Range(downloads') :
          (Idle(i) \/ Finished(i) \/ Errored(i)) =>
              /\ thread'[i].is_interrupted = thread[i].is_interrupted
              /\ Idle(i) => widget'[i].status_label # Interrupting
              /\ Finished(i) => Finished(i)'
              /\ Errored(i) => Errored(i)']_vars

\* C9: no two threads hold or clean up the same destination path at once.
C9_ExclusiveFile ==
    \A i, j \in Created :
        (i # j /\ Transferring(i) /\ Transferring(j))
            => thread[i].save_path # thread[j].save_path

\* C10: a confirmed clear_downloads leaves the list empty, has set the
\* interrupt flag of every record that was started and not finished, and
\* enters no run(); no step enters run() for a record taken off the list.
C10_Clear ==
    [][/\ confirmed' =>
            /\ downloads' = <<>>
            /\ \A i \in Range(downloads) :
                  (widget[i].is_started /\ ~widget[i].is_finished)
                      => thread'[i].is_interrupted
            /\ launches' = launches
       /\ \A i \in Removed : launches'[i] = launches[i]]_vars

\* A confirmed clear_downloads has just removed a record whose thread is
\* running, which it interrupted, and a record that was never started.
C10_Witness ==
    /\ confirmed
    /\ \E i, j \in Removed :
          /\ thread[i].pc \notin {"idle", "done"}
          /\ intr_when[i] # "never"
          /\ launches[j] = 0

\* The file at the destination path of thread i, and its length.
HasFile(i) == exists(fs, thread[i].save_path)
FileLen(i) == fsize[FileAt(fs, thread[i].save_path)]

\* The step is the failure of the request of thread i (lines 49-50 raise).
RequestFails(i) == thread[i].pc = "get" /\ thread'[i].pc = "done"

\* C11: when the request fails the worker emits exactly one error event, with
\* the message of the failure, and no progress or completion event, and the
\* step creates, truncates and deletes no file; the worker has opened none.
C11_RequestFailure ==
    [][\A i \in Created :
          /\ RequestFails(i) =>
                /\ emitted'[i] = <<ErrorEv(RequestMsg)>>
                /\ fs' = fs
                /\ fsize' = fsize
          /\ (emitted'[i] # <<>> /\ emitted'[i][1] = ErrorEv(RequestMsg)) =>
                /\ Len(emitted'[i]) = 1
                /\ thread'[i].pc = "done"
                /\ thread'[i].f = 0]_vars

\* The request of one worker has failed while the file another worker wrote at
\* the same destination path is there with its data.
C11_Witness ==
    \E i, j \in Created :
        /\ i # j
        /\ emitted[i] = <<ErrorEv(RequestMsg)>>
        /\ thread[i].pc = "done"
        /\ thread[j].save_path = thread[i].save_path
        /\ HasFile(i)
        /\ FileLen(i) > 0

\* The step is line 68 of a thread i that saw no interrupt.
Completes(i) ==
    thread[i].pc = "fin" /\ thread'[i].pc = "done" /\ ~thread[i].is_interrupted

\* C12: for a download of known, positive length that is not interrupted and
\* meets no fault, each progress event carries floor(100 * bytes so far /
\* declared total), there is one progress event per chunk, in order, then the
\* completion event, and at completion the file holds all the chunks.
C12_ProgressPerChunk ==
    [][\A i \in Created :
          (thread[i].total_size > 0 /\ ~thread'[i].is_interrupted) =>
              /\ (emitted'[i] # emitted[i] /\ IsProgress(Last(emitted'[i]))) =>
                    /\ thread'[i].downloaded = thread[i].downloaded + thread[i].data
                    /\ Last(emitted'[i]).val =
                          (100 * thread'[i].downloaded) \div thread[i].total_size
              /\ Completes(i) =>
                    /\ Len(emitted'[i]) = thread[i].chunks + 1
                    /\ \A k \in 1..thread[i].chunks : IsProgress(emitted'[i][k])
                    /\ Last(emitted'[i]) = FinishedEv
                    /\ HasFile(i)
                    /\ FileLen(i) = thread[i].downloaded]_vars

\* C13: a download of unknown length that is not interrupted emits no
\* progress event and exactly one completion event, and at completion the
\* file holds the whole body.
C13_UnknownLength ==
    [][\A i \in Created :
          (thread[i].total_size = 0 /\ Completes(i)) =>
              /\ emitted'[i] = <<FinishedEv>>
              /\ HasFile(i)
              /\ FileLen(i) \in ChunkLens]_vars

\* The ids issued so far: those of the threads of all the records created.
IssuedIds == {thread[j].download_id : j \in Created}

\* C14: add_download with a url that is not empty appends exactly one record
\* at the end of the list, Idle, with an id different from every id issued
\* before (also to records clear_downloads removed), starts no worker and
\* leaves the order, the widget and the worker of every other record as they
\* were.
C14_AddAppendsIdle ==
    [][\A u \in URLs :
          (strip(u) # <<>> /\ add_download(u)) =>
              /\ Len(downloads') = Len(downloads) + 1
              /\ Front(downloads') = downloads
              /\ LET n == Last(downloads')
                 IN  /\ n \notin Created
                     /\ thread'[n].download_id \notin IssuedIds
                     /\ widget'[n].download_id = thread'[n].download_id
                     /\ ~widget'[n].is_started /\ ~widget'[n].is_finished
                     /\ widget'[n].status_label = Ready
                     /\ thread'[n].pc = "idle"
                     /\ ~thread'[n].is_interrupted
                     /\ launches'[n] = 0
                     /\ \A j \in Ids \ {n} :
                           widget'[j] = widget[j] /\ thread'[j] = thread[j]
              /\ launches' = launches
              /\ emitted' = emitted]_vars

\* A record was added after a confirmed clear_downloads had removed one whose
\* thread is still running.
C14_Witness ==
    /\ created = 2
    /\ downloads = <<2>>
    /\ thread[1].pc \notin {"idle", "done"}
    /\ thread[2].pc = "idle"
    /\ widget[2].status_label = Ready

\* C15: a worker of unknown length that found the flag set at line 56 skips
\* the write, removes the file it opened and emits the error event of the
\* interruption.
C15_InterruptSeenBeforeBulkWrite ==
    \A i \in Created :
        (/\ thread[i].pc = "done"
         /\ thread[i].total_size = 0
         /\ thread[i].f # 0
         /\ thread[i].chunks = 0
         /\ ~Faulted(i)) =>
            /\ emitted[i] = <<ErrorEv(InterruptMsg)>>
            /\ ~HasFile(i)

\* C16: in every state in which a worker has emitted the error event of the
\* interruption, its destination file is absent.
C16_RemovedBeforeError ==
    \A i \in Created :
        (emitted[i] # <<>> /\ Last(emitted[i]) = ErrorEv(InterruptMsg))
            => ~HasFile(i)

\* The step emits, as the last event of thread i, an event for which P holds.
Emits(i, P(_)) == emitted'[i] # emitted[i] /\ P(Last(emitted'[i]))

IsFault(ev) == ev.sig = "error_signal" /\ ev.msg # InterruptMsg
IsFinished(ev) == ev = FinishedEv

\* C17: a directory entry is removed only by a worker that found its flag
\* set, at its own destination path; a step that ends a worker with the
\* completion event or with the error event of a fault removes and truncates
\* nothing, and no worker that emitted either is in the clean-up code.
C17_RemovesOnlyOnInterrupt ==
    [][/\ \A e \in fs \ fs' :
            \E i \in Created :
                /\ thread[i].pc = "remove"
                /\ thread'[i].pc = "done"
                /\ e.path = thread[i].save_path
                /\ thread[i].is_interrupted
                /\ Last(emitted[i]) = ErrorEv(InterruptMsg)
       /\ \A i \in Created :
            /\ (Emits(i, IsFault) \/ Emits(i, IsFinished)) =>
                  /\ fs' = fs
                  /\ fsize' = fsize
                  /\ thread'[i].pc = "done"
            /\ thread'[i].pc \in {"except", "exists", "remove"} =>
                  /\ thread'[i].is_interrupted
                  /\ ~Faulted(i)'
                  /\ \A k \in 1..Len(emitted'[i]) : emitted'[i][k] # FinishedEv]_vars

\* A worker of known length met a fault after its first chunk and ended; the
\* file with that chunk is there.
C17_Witness ==
    \E i \in Created :
        /\ thread[i].pc = "done"
        /\ thread[i].total_size > 0
        /\ thread[i].chunks = 1
        /\ Last(emitted[i]) = ErrorEv(IOMsg)
        /\ HasFile(i)
        /\ FileLen(i) = thread[i].downloaded

\* C18: on the known-length path a worker writes at most one chunk, and emits
\* at most one progress event, with its flag set, and a check at line 61 that
\* finds the flag set is never followed by the write.
C18_CheckBeforeEveryWrite ==
    [][\A i \in Created :
          /\ late'[i] <= 1
          /\ (thread[i].pc = "iter" /\ thread[i].is_interrupted)
                => thread'[i].pc # "write"
          /\ (thread[i].is_interrupted /\ Emits(i, IsProgress))
                => late'[i] = late[i] + 1]_vars

\* interrupt() came between the check and the write of a chunk: the worker
\* wrote that chunk, and the check of the next one stopped it.
C18_Witness ==
    \E i \in Created :
        /\ late[i] = 1
        /\ thread[i].chunks = 1
        /\ Last(emitted[i]) = ErrorEv(InterruptMsg)

\* C19: the delivery of an event of worker i changes the widget of record i
\* only, and no thread and not the list; the slots of every other record
\* ignore the event; a step in which a worker fails changes no other thread,
\* no widget and not the list.
C19_EventsIsolated ==
    [][/\ \A i \in Ids :
            delivered'[i] # delivered[i] =>
                /\ \A j \in Ids \ {i} : widget'[j] = widget[j]
                /\ thread' = thread
                /\ downloads' = downloads
       /\ \A i \in Created :
            Emits(i, IsFault) =>
                /\ \A j \in Ids \ {i} : thread'[j] = thread[j]
                /\ thread'[i].is_interrupted = thread[i].is_interrupted
                /\ widget' = widget
                /\ downloads' = downloads
       /\ \A i \in Created, j \in Range(downloads) :
            i # j =>
                \A k \in 1..Len(emitted[i]) :
                    Slot(widget[j], thread[i].download_id, emitted[i][k])
                        = widget[j]]_vars

\* The error of a failed worker has reached its record while the other
\* record of the list goes on downloading, with progress to show.
C19_Witness ==
    \E i, j \in Range(downloads) :
        /\ i # j
        /\ Faulted(i)
        /\ Errored(i)
        /\ widget[j].status_label = Downloading
        /\ thread[j].pc \notin {"idle", "done"}
        /\ ~thread[j].is_interrupted
        /\ widget[j].progress_bar > 0

\* C20: the flag is false at creation; a step that changes it sets it, is a
\* step of the window and not of the worker, acts on a started record and is
\* the first to do so; once set the flag stays set.
C20_FlagSetOnce ==
    [][\A i \in Ids :
          /\ thread'[i].is_interrupted # thread[i].is_interrupted =>
                /\ thread'[i].is_interrupted
                /\ i \in Range(downloads)
                /\ widget[i].is_started
                /\ intr_when[i] = "never"
                /\ thread'[i].pc = thread[i].pc
                /\ emitted' = emitted
          /\ thread[i].is_interrupted => thread'[i].is_interrupted
          /\ i \notin Created => ~thread'[i].is_interrupted
          /\ ~widget'[i].is_started => (~thread'[i].is_interrupted \/ i \in Removed')]_vars

\* interrupt_all_downloads has set the flag of a started record whose worker
\* had already ended, and left the record that was never started alone.
C20_Witness ==
    \E i, j \in Range(downloads) :
        /\ thread[i].is_interrupted
        /\ intr_when[i] = "after_terminal"
        /\ widget[i].status_label = Interrupting
        /\ Idle(j)
        /\ ~thread[j].is_interrupted

====
